---- MODULE Spec2Model ----
(***************************************************************************)
(* A model of scheemey.py: the schema interpreter parse / parse_object,    *)
(* the delimiter scanner find_closing / find_comma and the balance check   *)
(* verify_balanced.                                                        *)
(*                                                                         *)
(* Python strings are sequences of one-character strings.  Indices that    *)
(* the program computes are kept 0-based, as in the source; Slice and At   *)
(* translate them to the 1-based sequences of TLA+.                        *)
(***************************************************************************)
EXTENDS Integers, Sequences, FiniteSets, TLC

VARIABLES
  schema,    \* parse: the schema argument
  x,         \* parse: the object argument
  keyFirst,  \* the build: TRUE when a dict comprehension evaluates the key first
  pc,        \* parse: "call" before the call, "done" after it
  result,    \* parse: the value returned, or the exception raised
  s,         \* verify_balanced: the string argument
  i,         \* verify_balanced: the index the for loop is at
  stack,     \* verify_balanced: the list of (index, kind) pairs
  vbpc,      \* verify_balanced: "scan", or the return statement that was taken
  vbRet      \* verify_balanced: the value returned, or the exception raised

vars == <<schema, x, keyFirst, pc, result, s, i, stack, vbpc, vbRet>>
parseVars == <<schema, x, keyFirst, pc, result>>
vbVars == <<s, i, stack, vbpc, vbRet>>

----------------------------------------------------------------------------
(* Bounds of the checked inputs.                                           *)

\* verify_balanced is run on every string over VBAlphabet of at most this length
MaxVBLen == 4

\* literal-object schemas have at most this many members
MaxMembers == 2

\* tuple schemas have at most this many parts
MaxParts == 2

\* record schemas have at most this many fields
MaxFields == 2

\* the mappings given to a repeating map have at most this many entries
MaxEntries == 2

----------------------------------------------------------------------------
(* Python values.                                                          *)

VNone == [t |-> "none"]
VInt(n) == [t |-> "int", i |-> n]
VStr(cs) == [t |-> "str", s |-> cs]
VFloat(n) == [t |-> "float", f |-> n]
VDecimal(n) == [t |-> "decimal", d |-> n]
VDate(y, m, d) == [t |-> "date", y |-> y, m |-> m, d |-> d]
VList(items) == [t |-> "list", items |-> items]
VTuple(items) == [t |-> "tuple", items |-> items]
VDict(pairs) == [t |-> "dict", pairs |-> pairs]
VNamedTuple(name, fields, vals) ==
  [t |-> "namedtuple", name |-> name, fields |-> fields, vals |-> vals]
VPartial(sch) == [t |-> "partial", schema |-> sch]
\* a raised exception: its type and what raised it
Err(type, what) == [t |-> "err", type |-> type, what |-> what]
IsErr(v) == v.t = "err"

----------------------------------------------------------------------------
(* Characters and slices.                                                  *)

IsSpace(c) == c \in {" ", "\n", "\t"}

Digit == {"0", "1", "2", "3", "4", "5", "6", "7", "8", "9"}

WordChar ==
  Digit \cup {"_"} \cup
  {"a", "b", "c", "d", "e", "f", "g", "h", "i", "j", "k", "l", "m",
   "n", "o", "p", "q", "r", "s", "t", "u", "v", "w", "x", "y", "z"} \cup
  {"A", "B", "C", "D", "E", "F", "G", "H", "I", "J", "K", "L", "M",
   "N", "O", "P", "Q", "R", "S", "T", "U", "V", "W", "X", "Y", "Z"}

\* the sequences over S of length n, and of length at most n
RECURSIVE SeqsOfLen(_, _)
SeqsOfLen(S, n) ==
  IF n = 0 THEN {<<>>}
  ELSE {Append(w, e) : w \in SeqsOfLen(S, n - 1), e \in S}

SeqsUpTo(S, n) == UNION {SeqsOfLen(S, k) : k \in 0..n}

\* seq.index(c), 0-based; c occurs in seq
IndexIn(seq, c) == (CHOOSE k \in 1..Len(seq) : seq[k] = c) - 1

\* c in seq
In(seq, c) == \E k \in 1..Len(seq) : seq[k] = c

\* string[k], k 0-based and in range
At(str, k) == str[k + 1]

Min(a, b) == IF a < b THEN a ELSE b
Max(a, b) == IF a > b THEN a ELSE b

\* string[a:b] for 0 <= a, 0 <= b; Python clamps both ends to the length
Slice(str, a, b) == SubSeq(str, Min(a, Len(str)) + 1, Min(b, Len(str)))

\* string[a:]
SliceFrom(str, a) == Slice(str, a, Len(str))

\* the number of leading whitespace characters of str[k:], k 0-based
RECURSIVE SpacesFrom(_, _)
SpacesFrom(str, k) ==
  IF k < Len(str) /\ IsSpace(At(str, k)) THEN 1 + SpacesFrom(str, k + 1) ELSE 0

\* the number of trailing whitespace characters of str
RECURSIVE SpacesAtEnd(_)
SpacesAtEnd(str) ==
  IF Len(str) > 0 /\ IsSpace(str[Len(str)])
  THEN 1 + SpacesAtEnd(SubSeq(str, 1, Len(str) - 1))
  ELSE 0

\* str.strip()
Strip(str) ==
  LET a == SpacesFrom(str, 0)
  IN  IF a = Len(str) THEN <<>> ELSE Slice(str, a, Len(str) - SpacesAtEnd(str))

----------------------------------------------------------------------------
(* Decimal texts, str() and repr() of the decoded values.                  *)

Digits0to9 == <<"0", "1", "2", "3", "4", "5", "6", "7", "8", "9">>

DigitVal(c) == IndexIn(Digits0to9, c)

IsDigits(cs) == Len(cs) > 0 /\ \A k \in 1..Len(cs) : cs[k] \in Digit

\* the number a text of decimal digits denotes
RECURSIVE ToInt(_)
ToInt(cs) ==
  IF Len(cs) = 0 THEN 0
  ELSE 10 * ToInt(SubSeq(cs, 1, Len(cs) - 1)) + DigitVal(cs[Len(cs)])

\* the decimal text of a number n >= 0
RECURSIVE DigitsOf(_)
DigitsOf(n) ==
  IF n < 10 THEN <<Digits0to9[n + 1]>>
  ELSE DigitsOf(n \div 10) \o <<Digits0to9[(n % 10) + 1]>>

\* the texts of seq joined by ", "
RECURSIVE JoinComma(_)
JoinComma(seq) ==
  IF Len(seq) = 0 THEN <<>>
  ELSE IF Len(seq) = 1 THEN seq[1]
  ELSE seq[1] \o <<",", " ">> \o JoinComma(Tail(seq))

\* repr(v) for the values a decoded document holds (numbers are >= 0, texts
\* hold no quote or backslash)
RECURSIVE ReprOf(_)
ReprOf(v) ==
  CASE v.t = "none" -> <<"N", "o", "n", "e">>
    [] v.t = "int" -> DigitsOf(v.i)
    [] v.t = "float" -> DigitsOf(v.f) \o <<".", "0">>
    [] v.t = "str" -> <<"'">> \o v.s \o <<"'">>
    [] v.t = "list" ->
         <<"[">> \o JoinComma([k \in 1..Len(v.items) |-> ReprOf(v.items[k])]) \o <<"]">>
    [] v.t = "tuple" ->
         <<"(">> \o JoinComma([k \in 1..Len(v.items) |-> ReprOf(v.items[k])])
                 \o (IF Len(v.items) = 1 THEN <<",">> ELSE <<>>) \o <<")">>
    [] v.t = "dict" ->
         <<"{">> \o JoinComma([k \in 1..Len(v.pairs) |->
                     ReprOf(v.pairs[k][1]) \o <<":", " ">> \o ReprOf(v.pairs[k][2])])
                 \o <<"}">>

----------------------------------------------------------------------------
(* token_parsers, lines 39-47.                                             *)

T_decimal == <<"d", "e", "c", "i", "m", "a", "l">>
T_payee == <<"p", "a", "y", "e", "e">>
T_str == <<"s", "t", "r">>
T_float == <<"f", "l", "o", "a", "t">>
T_int == <<"i", "n", "t">>
T_isodate == <<"i", "s", "o", "d", "a", "t", "e">>
T_any == <<"a", "n", "y">>

TokenNames == {T_decimal, T_payee, T_str, T_float, T_int, T_isodate, T_any}

\* Decimal(v)
ToDecimal(v) ==
  CASE v.t = "int" -> VDecimal(v.i)
    [] v.t = "float" -> VDecimal(v.f)
    [] v.t = "decimal" -> v
    [] v.t = "str" ->
         IF IsDigits(Strip(v.s)) THEN VDecimal(ToInt(Strip(v.s)))
         ELSE Err("InvalidOperation", "Decimal")
    [] v.t \in {"list", "tuple"} -> Err("ValueError", "Decimal")
    [] OTHER -> Err("TypeError", "Decimal")

\* str(v)
ToStr(v) == IF v.t = "str" THEN v ELSE VStr(ReprOf(v))

\* float(v)
ToFloat(v) ==
  CASE v.t = "int" -> VFloat(v.i)
    [] v.t = "float" -> v
    [] v.t = "str" ->
         IF IsDigits(Strip(v.s)) THEN VFloat(ToInt(Strip(v.s)))
         ELSE Err("ValueError", "float")
    [] OTHER -> Err("TypeError", "float")

\* int(v)
ToIntValue(v) ==
  CASE v.t = "int" -> v
    [] v.t = "float" -> VInt(v.f)
    [] v.t = "str" ->
         IF IsDigits(Strip(v.s)) THEN VInt(ToInt(Strip(v.s)))
         ELSE Err("ValueError", "int")
    [] OTHER -> Err("TypeError", "int")

\* a text YYYY-MM-DD that names a day of the calendar (months of 28 days or
\* more: the days 29..31 are not told apart here)
IsIsoDate(cs) ==
  /\ Len(cs) = 10
  /\ cs[5] = "-" /\ cs[8] = "-"
  /\ \A k \in {1, 2, 3, 4, 6, 7, 9, 10} : cs[k] \in Digit
  /\ ToInt(SubSeq(cs, 1, 4)) >= 1
  /\ ToInt(SubSeq(cs, 6, 7)) \in 1..12
  /\ ToInt(SubSeq(cs, 9, 10)) \in 1..28

\* lambda x: parser.parse(x).date().  The date parser is a library: an ISO
\* text gives its date, a text without a digit is refused, and what the
\* library makes of any other text is left uninterpreted.
Isodate(v) ==
  IF v.t # "str" THEN Err("TypeError", "isodate")
  ELSE IF IsIsoDate(v.s)
  THEN VDate(ToInt(SubSeq(v.s, 1, 4)), ToInt(SubSeq(v.s, 6, 7)), ToInt(SubSeq(v.s, 9, 10)))
  ELSE IF \A k \in 1..Len(v.s) : v.s[k] \notin Digit
  THEN Err("ValueError", "isodate")
  ELSE [t |-> "dateutil", text |-> v.s]

\* token_parsers[name](v)
Convert(name, v) ==
  CASE name = T_decimal -> ToDecimal(v)
    [] name = T_payee -> ToStr(v)
    [] name = T_str -> ToStr(v)
    [] name = T_float -> ToFloat(v)
    [] name = T_int -> ToIntValue(v)
    [] name = T_isodate -> Isodate(v)
    [] name = T_any -> v

----------------------------------------------------------------------------
(* find_closing and find_comma.  -1 stands for the IndexError that reading *)
(* past the end of the string raises.                                      *)

ClosingOf(open_char) ==
  IF open_char = "{" THEN "}" ELSE IF open_char = "(" THEN ")" ELSE "]"

\* lines 127-133: the while loop
RECURSIVE FindClosingLoop(_, _, _, _, _)
FindClosingLoop(string, open_char, close_char, depth, index) ==
  IF depth <= 0 THEN index
  ELSE IF index >= Len(string) THEN -1
  ELSE IF At(string, index) = open_char
  THEN FindClosingLoop(string, open_char, close_char, depth + 1, index + 1)
  ELSE IF At(string, index) = close_char
  THEN FindClosingLoop(string, open_char, close_char, depth - 1, index + 1)
  ELSE FindClosingLoop(string, open_char, close_char, depth, index + 1)

\* string[open_index] is one of { ( [
find_closing(string, open_index) ==
  LET open_char == At(string, open_index)
  IN  FindClosingLoop(string, open_char, ClosingOf(open_char), 1, open_index + 1)

RECURSIVE find_comma(_, _)
find_comma(string, index) ==
  IF index >= Len(string) THEN -1
  ELSE IF At(string, index) = "," THEN index
  ELSE IF At(string, index) \in {"{", "(", "["}
  THEN LET j == find_closing(string, index)
       IN  IF j = -1 THEN -1 ELSE find_comma(string, j)
  ELSE find_comma(string, index + 1)

----------------------------------------------------------------------------
(* The regular expressions.  Positions inside these definitions are the    *)
(* 1-based positions of the sequence.  A match is [ok |-> TRUE, g1, g2]    *)
(* with the groups the program reads; no match is [ok |-> FALSE].          *)

SetMax(S) == CHOOSE m \in S : \A k \in S : k <= m
SetMin(S) == CHOOSE m \in S : \A k \in S : m <= k

\* `.` without re.S
Dot(c) == c # "\n"

AllDot(str, a, b) == \A k \in a..b : Dot(str[k])
AllSpace(str, a, b) == \A k \in a..b : IsSpace(str[k])

\* the length of the whitespace run that starts at position p
SpacesAt(str, p) == SpacesFrom(str, p - 1)

\* the number of word characters at the start of str[k:], k 0-based
RECURSIVE WordRun(_, _)
WordRun(str, k) ==
  IF k < Len(str) /\ At(str, k) \in WordChar THEN 1 + WordRun(str, k + 1) ELSE 0

\* `,\s*\.\.\.\s*<close>$` matches from position p, where a comma stands
EllipsisTail(str, p, close) ==
  /\ p >= 1 /\ p <= Len(str)
  /\ str[p] = ","
  /\ LET d == p + 1 + SpacesAt(str, p + 1)
     IN  /\ d + 2 <= Len(str)
         /\ str[d] = "." /\ str[d + 1] = "." /\ str[d + 2] = "."
         /\ LET e == d + 3 + SpacesAt(str, d + 3)
            IN  e = Len(str) /\ str[e] = close

\* line 86: ^{\s*(.+)\s*:\s*(.+)\s*,\s*\.\.\.\s*}$ on a stripped text.  Each
\* greedy item takes the longest run that lets the rest match, the earlier
\* item first; the definitions below follow the pattern from its end.

\* the positions where group 2 may end: `\s*,\s*\.\.\.\s*}$` follows
MapValueEnds(str) ==
  {e \in 1..Len(str) : EllipsisTail(str, e + 1 + SpacesAt(str, e + 1), "}")}

\* group 2 may span p2..e2
MapValueSpan(str, E2, p2, e2) == p2 <= e2 /\ e2 \in E2 /\ AllDot(str, p2, e2)

\* the positions where group 2 may start after the colon at c
MapValueStarts(str, E2, c) ==
  {p2 \in (c + 1)..(c + 1 + SpacesAt(str, c + 1)) :
     \E e2 \in E2 : MapValueSpan(str, E2, p2, e2)}

\* the colons after which `\s*(.+)\s*,\s*\.\.\.\s*}$` matches
MapColons(str, E2) ==
  {c \in 1..Len(str) : str[c] = ":" /\ MapValueStarts(str, E2, c) # {}}

\* group 1 may span p1..e1 before the colon at c
MapKeySpan(str, p1, e1, c) ==
  p1 <= e1 /\ e1 < c /\ AllDot(str, p1, e1) /\ AllSpace(str, e1 + 1, c - 1)

\* the positions where group 1 may start
MapKeyStarts(str, Colons) ==
  {p1 \in 2..(2 + SpacesAt(str, 2)) :
     \E c \in Colons : \E e1 \in p1..(c - 1) : MapKeySpan(str, p1, e1, c)}

MapGroups(str, E2, p1, e1, p2) ==
  [ok |-> TRUE,
   g1 |-> SubSeq(str, p1, e1),
   g2 |-> SubSeq(str, p2, SetMax({e \in E2 : MapValueSpan(str, E2, p2, e)}))]

MapAfterColon(str, E2, p1, e1, c) ==
  MapGroups(str, E2, p1, e1, SetMax(MapValueStarts(str, E2, c)))

MapAfterKey(str, E2, Colons, p1, e1) ==
  MapAfterColon(str, E2, p1, e1, SetMax({c \in Colons : MapKeySpan(str, p1, e1, c)}))

MapFromStart(str, E2, Colons, p1) ==
  MapAfterKey(str, E2, Colons, p1,
              SetMax({e \in p1..Len(str) : \E c \in Colons : MapKeySpan(str, p1, e, c)}))

MapWithStarts(str, E2, Colons, P1) ==
  IF Len(str) = 0 \/ str[1] # "{" \/ P1 = {} THEN [ok |-> FALSE]
  ELSE MapFromStart(str, E2, Colons, SetMax(P1))

MapWithColons(str, E2, Colons) ==
  MapWithStarts(str, E2, Colons, MapKeyStarts(str, Colons))

MapWithEnds(str, E2) == MapWithColons(str, E2, MapColons(str, E2))

MatchRepeatingMap(str) == MapWithEnds(str, MapValueEnds(str))

\* line 95: ^\[(.*),\s*\.\.\.\s*\]$ on a stripped text
MatchRepeatingList(str) ==
  LET n == Len(str)
      C == {c \in 2..n : EllipsisTail(str, c, "]") /\ AllDot(str, 2, c - 1)}
  IN  IF n = 0 \/ str[1] # "[" \/ C = {} THEN [ok |-> FALSE]
      ELSE [ok |-> TRUE, g1 |-> SubSeq(str, 2, SetMax(C) - 1), g2 |-> <<>>]

\* line 108: ^(\w+)\((.*)\)$ on a stripped text
MatchRecord(str) ==
  LET n == Len(str)
      k == WordRun(str, 0)
  IN  IF k >= 1 /\ k + 2 <= n /\ str[k + 1] = "(" /\ str[n] = ")"
         /\ AllDot(str, k + 2, n - 1)
      THEN [ok |-> TRUE, g1 |-> SubSeq(str, 1, k), g2 |-> SubSeq(str, k + 2, n - 1)]
      ELSE [ok |-> FALSE]

\* the position of the quote that ends the key opened at position 1 by the
\* quote character, 0 when the key is empty or not closed
KeyClose(str, quote) ==
  LET Q == {q \in 2..Len(str) : str[q] = quote}
  IN  IF Q = {} \/ SetMin(Q) < 3 THEN 0 ELSE SetMin(Q)

\* line 184, first pattern: ^(\'([^\']+)\':\s*)(.*?), with re.S.
\* group 1 is the quoted key, the colon and the whitespace; group 2 the key.
MatchSingleQuoted(str) ==
  LET n == Len(str)
      q == KeyClose(str, "'")
      w == SpacesAt(str, q + 2)
  IN  IF n > 0 /\ str[1] = "'" /\ q > 0 /\ q + 1 <= n /\ str[q + 1] = ":"
         /\ \E k \in (q + 2 + w)..n : str[k] = ","
      THEN [ok |-> TRUE, g1 |-> SubSeq(str, 1, q + 1 + w), g2 |-> SubSeq(str, 2, q - 1)]
      ELSE [ok |-> FALSE]

\* line 184, second pattern: ^"([^"]+)":\s*(.)
\* group 1 is the key; group 2 the one character that follows the whitespace.
MatchDoubleQuoted(str) ==
  LET n == Len(str)
      q == KeyClose(str, "\"")
      w == SpacesAt(str, q + 2)
      W == {u \in 0..w : q + 2 + u <= n /\ Dot(str[q + 2 + u])}
  IN  IF n > 0 /\ str[1] = "\"" /\ q > 0 /\ q + 1 <= n /\ str[q + 1] = ":"
         /\ W # {}
      THEN [ok |-> TRUE, g1 |-> SubSeq(str, 2, q - 1),
            g2 |-> <<str[q + 2 + SetMax(W)]>>]
      ELSE [ok |-> FALSE]

\* line 184: re.match(first) or re.match(second)
MatchLiteralKey(str) ==
  IF MatchSingleQuoted(str).ok THEN MatchSingleQuoted(str) ELSE MatchDoubleQuoted(str)

\* str.split(sep), sep one character
RECURSIVE Split(_, _)
Split(str, sep) ==
  LET S == {k \in 1..Len(str) : str[k] = sep}
  IN  IF S = {} THEN <<str>>
      ELSE <<SubSeq(str, 1, SetMin(S) - 1)>>
             \o Split(SubSeq(str, SetMin(S) + 1, Len(str)), sep)

----------------------------------------------------------------------------
(* What the interpreter asks of the object: len, iteration, `in`, [].      *)

Sized(v) == v.t \in {"str", "list", "tuple", "dict", "namedtuple"}

\* len(v), v sized
LenOf(v) ==
  CASE v.t = "str" -> Len(v.s)
    [] v.t \in {"list", "tuple"} -> Len(v.items)
    [] v.t = "dict" -> Len(v.pairs)
    [] v.t = "namedtuple" -> Len(v.vals)

\* the elements iteration over v yields, v sized
ItemsOf(v) ==
  CASE v.t = "str" -> [k \in 1..Len(v.s) |-> VStr(<<v.s[k]>>)]
    [] v.t \in {"list", "tuple"} -> v.items
    [] v.t = "dict" -> [k \in 1..Len(v.pairs) |-> v.pairs[k][1]]
    [] v.t = "namedtuple" -> v.vals

IsNumber(v) == v.t \in {"int", "float", "decimal"}
NumberOf(v) == IF v.t = "int" THEN v.i ELSE IF v.t = "float" THEN v.f ELSE v.d

\* a == b for keys: numbers of one value are one key
KeyEq(a, b) ==
  IF IsNumber(a) /\ IsNumber(b) THEN NumberOf(a) = NumberOf(b) ELSE a = b

RECURSIVE Hashable(_)
Hashable(v) ==
  CASE v.t \in {"list", "dict"} -> FALSE
    [] v.t = "tuple" -> \A k \in 1..Len(v.items) : Hashable(v.items[k])
    [] v.t = "namedtuple" -> \A k \in 1..Len(v.vals) : Hashable(v.vals[k])
    [] OTHER -> TRUE

\* `sub in text` for two texts
IsSubstring(sub, text) ==
  \E a \in 0..(Len(text) - Len(sub)) : SubSeq(text, a + 1, a + Len(sub)) = sub

\* `key in o` raises TypeError
ContainsRaises(o) == ~Sized(o)

\* `key in o` for a text key, o sized
Contains(o, key) ==
  CASE o.t = "dict" -> \E k \in 1..Len(o.pairs) : KeyEq(o.pairs[k][1], VStr(key))
    [] o.t = "str" -> IsSubstring(key, o.s)
    [] OTHER -> \E k \in 1..LenOf(o) : ItemsOf(o)[k] = VStr(key)

\* o[key] for a text key
GetItem(o, key) ==
  IF o.t = "dict"
  THEN IF \E k \in 1..Len(o.pairs) : KeyEq(o.pairs[k][1], VStr(key))
       THEN o.pairs[CHOOSE k \in 1..Len(o.pairs) : KeyEq(o.pairs[k][1], VStr(key))][2]
       ELSE Err("KeyError", "getitem")
  ELSE Err("TypeError", "getitem")

\* pairs with pairs[k] = v set: an equal key keeps its place and its key
DictSet(pairs, k, v) ==
  IF \E j \in 1..Len(pairs) : KeyEq(pairs[j][1], k)
  THEN [j \in 1..Len(pairs) |->
          IF KeyEq(pairs[j][1], k) THEN <<pairs[j][1], v>> ELSE pairs[j]]
  ELSE Append(pairs, <<k, v>>)

\* dict.update: the entries of more set one after the other
RECURSIVE DictUpdate(_, _)
DictUpdate(pairs, more) ==
  IF Len(more) = 0 THEN pairs
  ELSE DictUpdate(DictSet(pairs, more[1][1], more[1][2]), Tail(more))

\* the first exception in a sequence of outcomes, evaluated left to right
HasErr(seq) == \E k \in 1..Len(seq) : IsErr(seq[k])
FirstErr(seq) == seq[SetMin({k \in 1..Len(seq) : IsErr(seq[k])})]

\* collections.namedtuple accepts the name (Python's keywords, which it also
\* refuses, are not told apart here)
IsIdentifier(cs) ==
  /\ Len(cs) > 0
  /\ \A k \in 1..Len(cs) : cs[k] \in WordChar
  /\ cs[1] \notin Digit

NamedTupleAccepts(name, fields) ==
  /\ IsIdentifier(name)
  /\ \A k \in 1..Len(fields) : IsIdentifier(fields[k]) /\ fields[k][1] # "_"
  /\ \A j, k \in 1..Len(fields) : fields[j] = fields[k] => j = k

----------------------------------------------------------------------------
(* parse and parse_object.                                                 *)

\* the branch of parse that (schema, x) takes, lines 74-116
Branch(sch0, v) ==
  LET sch == Strip(sch0)
  IN  IF v = VNone THEN "curry"
      ELSE IF sch = <<>> THEN "empty"
      ELSE IF sch \in TokenNames THEN "token"
      ELSE IF sch[1] = "{" /\ sch[Len(sch)] = "}"
      THEN IF MatchRepeatingMap(sch).ok THEN "repeating_map" ELSE "literal_object"
      ELSE IF sch[1] = "[" /\ sch[Len(sch)] = "]"
      THEN IF MatchRepeatingList(sch).ok THEN "repeating_list" ELSE "bad_list"
      ELSE IF sch[1] = "(" /\ sch[Len(sch)] = ")" THEN "tuple"
      ELSE IF MatchRecord(sch).ok THEN "record"
      ELSE "unrecognized"

\* the end taken at the first comma, brackets not skipped
MemberEndAtFirstComma(sch, value_start) ==
  LET S == {k \in value_start..(Len(sch) - 1) : At(sch, k) = ","}
  IN  IF S = {} THEN -1 ELSE SetMin(S)

\* line 196: where the schema of a member that opens no bracket ends
MemberEnd(sch, value_start) == find_comma(sch, value_start)

\* line 104: the parts of a tuple schema
TupleParts(inner) == Split(inner, ",")

\* line 113: the field name of a parameter
FieldName(text) == Strip(text)

\* a failed `assert cond, 'what: %s' % v`: the message is formatted first, and
\* % with a tuple on its right takes the tuple's elements as its arguments
AssertionFails(what, v) ==
  IF v.t \in {"tuple", "namedtuple"} /\ LenOf(v) # 1
  THEN Err("TypeError", "string formatting")
  ELSE Err("AssertionError", what)

RECURSIVE Parse(_, _), parse_object(_, _)

\* lines 86-89: the repeating map with key schema g1 and value schema g2
ParseRepeatingMap(g1, g2, v) ==
  IF v.t # "dict" THEN AssertionFails("not dict", v)
  ELSE LET n == Len(v.pairs)
           ks == [j \in 1..n |-> Parse(g1, v.pairs[j][1])]
           vs == [j \in 1..n |-> Parse(g2, v.pairs[j][2])]
           Bad == {j \in 1..n : IsErr(ks[j]) \/ IsErr(vs[j]) \/ ~Hashable(ks[j])}
           Raised(j) ==
             LET first == IF keyFirst THEN ks[j] ELSE vs[j]
                 second == IF keyFirst THEN vs[j] ELSE ks[j]
             IN  IF IsErr(first) THEN first
                 ELSE IF IsErr(second) THEN second
                 ELSE Err("TypeError", "unhashable")
       IN  IF Bad # {} THEN Raised(SetMin(Bad))
           ELSE VDict(DictUpdate(<<>>, [j \in 1..n |-> <<ks[j], vs[j]>>]))

\* lines 95-98
ParseRepeatingList(g1, v) ==
  IF v.t # "list" THEN AssertionFails("not list", v)
  ELSE LET out == [j \in 1..Len(v.items) |-> Parse(g1, v.items[j])]
       IN  IF HasErr(out) THEN FirstErr(out) ELSE VList(out)

\* lines 104-106
ParseTuple(inner, v) ==
  LET schema_parts == TupleParts(inner)
  IN  IF ~Sized(v) THEN Err("TypeError", "len")
      ELSE IF Len(schema_parts) # LenOf(v)
      THEN AssertionFails("bad number of parts", v)
      ELSE LET out == [j \in 1..Len(schema_parts) |->
                         Parse(schema_parts[j], ItemsOf(v)[j])]
           IN  IF HasErr(out) THEN FirstErr(out) ELSE VTuple(out)

\* lines 110-114
ParseRecord(name, paramText, v) ==
  LET ps == Split(paramText, ",")
      params == [j \in 1..Len(ps) |-> Split(ps[j], ":")]
  IN  IF \E j \in 1..Len(ps) : Len(params[j]) # 2 THEN Err("TypeError", "param")
      ELSE IF ~Sized(v) THEN Err("TypeError", "len")
      ELSE IF Len(params) # LenOf(v) THEN AssertionFails("bad len", v)
      ELSE LET fields == [j \in 1..Len(params) |-> FieldName(params[j][1])]
           IN  IF ~NamedTupleAccepts(name, fields) THEN Err("ValueError", "namedtuple")
               ELSE LET out == [j \in 1..Len(params) |->
                                  Parse(Strip(params[j][2]), ItemsOf(v)[j])]
                    IN  IF HasErr(out) THEN FirstErr(out)
                        ELSE VNamedTuple(name, fields, out)

Parse(sch0, v) ==
  LET sch == Strip(sch0)
      b == Branch(sch0, v)
  IN  CASE b = "curry" -> VPartial(sch0)
        [] b = "empty" -> VNone
        [] b = "token" -> Convert(sch, v)
        [] b = "repeating_map" ->
             ParseRepeatingMap(MatchRepeatingMap(sch).g1, MatchRepeatingMap(sch).g2, v)
        [] b = "literal_object" -> parse_object(Slice(sch, 1, Len(sch) - 1), v)
        [] b = "repeating_list" -> ParseRepeatingList(MatchRepeatingList(sch).g1, v)
        [] b = "bad_list" -> Err("AssertionError", "list schema must end in , ...")
        [] b = "tuple" -> ParseTuple(Slice(sch, 1, Len(sch) - 1), v)
        [] b = "record" -> ParseRecord(MatchRecord(sch).g1, MatchRecord(sch).g2, v)
        [] b = "unrecognized" -> Err("AssertionError", "what is this")

\* lines 177-201
parse_object(sch0, o) ==
  LET sch == Strip(sch0)
      m == MatchLiteralKey(sch)
      key == m.g2
      value_start == Len(m.g1)
      value_end ==
        IF At(sch, value_start) \in {"(", "[", "{"}
        THEN find_closing(sch, value_start)
        ELSE MemberEnd(sch, value_start)
      member == Parse(Slice(sch, value_start, value_end), GetItem(o, key))
      rest == parse_object(SliceFrom(sch, value_end + 1), o)
  IN  IF sch = <<>> THEN VDict(<<>>)
      ELSE IF ~m.ok THEN Err("AssertionError", "bad literal object")
      ELSE IF ContainsRaises(o) THEN Err("TypeError", "in")
      ELSE IF ~Contains(o, key) THEN Err("AssertionError", "key not found")
      ELSE IF value_end = -1 THEN Err("IndexError", "string index out of range")
      ELSE IF IsErr(GetItem(o, key)) THEN GetItem(o, key)
      ELSE IF IsErr(member) THEN member
      ELSE IF IsErr(rest) THEN rest
      ELSE VDict(DictUpdate(<<<<VStr(key), member>>>>, rest.pairs))

----------------------------------------------------------------------------
(* The schemas and objects parse is checked on.                            *)

\* the schema [int, ...]
S_list_int ==
  <<"[", "i", "n", "t", ",", " ", ".", ".", ".", "]">>

\* the schema [isodate, ...]
S_list_isodate ==
  <<"[", "i", "s", "o", "d", "a", "t", "e", ",", " ", ".", ".", ".",
    "]">>

\* the schema {str: int, ...}
S_map_str_int ==
  <<"{", "s", "t", "r", ":", " ", "i", "n", "t", ",", " ", ".", ".",
    ".", "}">>

\* the schema (int, int)
S_tuple_int_int ==
  <<"(", "i", "n", "t", ",", " ", "i", "n", "t", ")">>

\* the schema (str, str)
S_tuple_str_str ==
  <<"(", "s", "t", "r", ",", " ", "s", "t", "r", ")">>

\* the schema P(x:int, y:int)
S_record_P ==
  <<"P", "(", "x", ":", "i", "n", "t", ",", " ", "y", ":", "i", "n",
    "t", ")">>

\* the schema {'a': int,}
S_object_a ==
  <<"{", "'", "a", "'", ":", " ", "i", "n", "t", ",", "}">>

\* a list schema without the ellipsis
S_bad_list ==
  <<"[", "i", "n", "t", "]">>

\* a text that is no schema
S_unknown ==
  <<"f", "o", "o">>

\* the record name Point
W_Point ==
  <<"P", "o", "i", "n", "t">>

\* the record name P
W_P ==
  <<"P">>

\* an ISO date text
W_date ==
  <<"2", "0", "1", "4", "-", "0", "1", "-", "0", "1">>

\* the key of the j-th member of a literal object, the name of the j-th field
Letters == <<"a", "b", "c", "d", "e">>
KeyOf(j) == <<Letters[j]>>
FieldLetters == <<"x", "y", "z", "w", "v">>
FieldOf(j) == <<FieldLetters[j]>>

\* the texts of seq joined by sep
RECURSIVE Join(_, _)
Join(seq, sep) ==
  IF Len(seq) = 0 THEN <<>>
  ELSE IF Len(seq) = 1 THEN seq[1]
  ELSE seq[1] \o sep \o Join(Tail(seq), sep)

\* the sequences over S of length at most n without a repeated element
DistinctSeqsUpTo(S, n) ==
  {w \in SeqsUpTo(S, n) : \A j, k \in 1..Len(w) : w[j] = w[k] => j = k}

ListAndTuple(E) == {VList(e) : e \in E} \cup {VTuple(e) : e \in E}

V_a1 == VDict(<<<<VStr(<<"a">>), VInt(1)>>>>)
V_12 == VList(<<VInt(1), VInt(2)>>)

\* token schemas, bare and padded, and empty schemas
TokenSchemas == TokenNames \cup {<<" ">> \o n \o <<" ">> : n \in TokenNames}
EmptySchemas == {<<>>, <<" ">>, <<"\n", " ">>}
TokenValues ==
  {VNone, VInt(1), VFloat(2), VStr(<<"a">>), VStr(<<"1", "2">>), VStr(W_date),
   VList(<<VInt(1)>>), V_a1}

\* literal objects {'a': F1, 'b': F2,} and {"a": F1,}
ObjFrags ==
  {T_int, S_list_int, S_map_str_int, S_tuple_int_int, S_record_P, S_object_a}
RenderMember(quote, key, frag) ==
  <<quote>> \o key \o <<quote, ":", " ">> \o frag \o <<",">>
RenderObject(quote, frags) ==
  <<"{">> \o Join([j \in 1..Len(frags) |-> RenderMember(quote, KeyOf(j), frags[j])],
                  <<" ">>)
          \o <<"}">>
ObjCases ==
  {[frags |-> f, text |-> RenderObject("'", f)] : f \in SeqsUpTo(ObjFrags, MaxMembers)}
DQCases ==
  {[frags |-> f, text |-> RenderObject("\"", f), single |-> RenderObject("'", f)] :
     f \in SeqsOfLen(ObjFrags, 1)}
MemberVals == {VInt(1), V_12, V_a1}
DictOf(vals) == VDict([j \in 1..Len(vals) |-> <<VStr(KeyOf(j)), vals[j]>>])
WithExtra(d) == VDict(<<<<VStr(<<"z">>), VInt(2)>>>> \o d.pairs)
NonMappings == {VNone, VInt(1), VStr(<<"a">>), VList(<<VStr(<<"a">>)>>)}
ObjValues ==
  {DictOf(v) : v \in SeqsUpTo(MemberVals, MaxMembers)}
    \cup {WithExtra(DictOf(v)) : v \in SeqsUpTo(MemberVals, MaxMembers)}
    \cup NonMappings

\* tuples (P1, P2)
TupleFrags == {T_str, T_int, S_tuple_str_str, S_list_int}
RenderTuple(parts) == <<"(">> \o Join(parts, <<",", " ">>) \o <<")">>
TupleCases ==
  {[parts |-> q, text |-> RenderTuple(q)] : q \in SeqsUpTo(TupleFrags, MaxParts) \ {<<>>}}
TupleElems == {VStr(<<"1">>), VList(<<VStr(<<"1">>), VStr(<<"2">>)>>)}
TupleValues == ListAndTuple(SeqsUpTo(TupleElems, MaxParts + 1))

\* repeating maps {K: V, ...}
MapKeySchemas == {T_str, T_int, T_any}
MapValueSchemas == {T_any, T_int, S_record_P, S_object_a}
RenderMap(K, V) == <<"{">> \o K \o <<":", " ">> \o V \o <<",", " ", ".", ".", ".", "}">>
MapCases ==
  {[k |-> K, v |-> V, text |-> RenderMap(K, V)] :
     K \in MapKeySchemas, V \in MapValueSchemas}
MapEntries ==
  {<<k, v>> : k \in {VInt(1), VStr(<<"1">>), VStr(<<"a">>)}, v \in {VInt(2), V_12, V_a1}}
MapValues ==
  {VDict(e) : e \in {w \in SeqsUpTo(MapEntries, MaxEntries) :
                       \A j, k \in 1..Len(w) : w[j][1] = w[k][1] => j = k}}
    \cup NonMappings

\* records in three layouts: P(x:T1, y:T2), Point( x : T1 , y : T2 ) and
\* P(x:T1, <line break> y:T2)
RecordTypes == {T_int, T_str, T_float}
RecordStyles == {"tight", "spaced", "lines"}
RecordName(style) == IF style = "spaced" THEN W_Point ELSE W_P
RenderRecord(style, types) ==
  RecordName(style) \o <<"(">>
    \o Join([j \in 1..Len(types) |->
               IF style = "spaced"
               THEN <<" ">> \o FieldOf(j) \o <<" ", ":", " ">> \o types[j] \o <<" ">>
               ELSE FieldOf(j) \o <<":">> \o types[j]],
            IF style = "spaced" THEN <<",">>
            ELSE IF style = "lines" THEN <<",", "\n", " ">>
            ELSE <<",", " ">>)
    \o <<")">>
RecordCases ==
  {[name |-> RecordName(st), types |-> ty, text |-> RenderRecord(st, ty)] :
     st \in RecordStyles, ty \in SeqsUpTo(RecordTypes, MaxFields) \ {<<>>}}
RecordElems == {VInt(1), VStr(<<"2">>)}
RecordValues == ListAndTuple(SeqsUpTo(RecordElems, MaxFields + 1))

\* list schemas and a text that is no schema
OtherSchemas == {S_list_int, S_list_isodate, S_bad_list, S_unknown}
OtherValues == {VInt(1), VList(<<VInt(1)>>), VList(<<VStr(W_date)>>)}

Texts(cases) == {c.text : c \in cases}

\* the calls parse(schema, x) that are checked
ParseInputs ==
  (TokenSchemas \X TokenValues)
    \cup (EmptySchemas \X TokenValues)
    \cup (Texts(ObjCases) \X ObjValues)
    \cup (Texts(DQCases) \X ObjValues)
    \cup (Texts(TupleCases) \X TupleValues)
    \cup (Texts(MapCases) \X MapValues)
    \cup (Texts(RecordCases) \X RecordValues)
    \cup (OtherSchemas \X OtherValues)

----------------------------------------------------------------------------
(* parse(schema, x), one step per call; the step is named after the branch *)
(* of parse the call takes.                                                *)

Init ==
  /\ \E in \in ParseInputs : schema = in[1] /\ x = in[2]
  /\ keyFirst \in BOOLEAN
  /\ pc = "call"
  /\ result = VNone
  /\ s = <<>>
  /\ i = 0
  /\ stack = <<>>
  /\ vbpc = "idle"
  /\ vbRet = VNone

\* lines 74-75: x is None, the curried parser is returned
ParseCurry ==
  /\ pc = "call"
  /\ Branch(schema, x) = "curry"
  /\ result' = Parse(schema, x)
  /\ pc' = "done"
  /\ UNCHANGED <<schema, x, keyFirst>>
  /\ UNCHANGED vbVars

\* lines 77-80: the stripped schema is empty
ParseEmpty ==
  /\ pc = "call"
  /\ Branch(schema, x) = "empty"
  /\ result' = Parse(schema, x)
  /\ pc' = "done"
  /\ UNCHANGED <<schema, x, keyFirst>>
  /\ UNCHANGED vbVars

\* lines 82-83: the schema is a token name
ParseToken ==
  /\ pc = "call"
  /\ Branch(schema, x) = "token"
  /\ result' = Parse(schema, x)
  /\ pc' = "done"
  /\ UNCHANGED <<schema, x, keyFirst>>
  /\ UNCHANGED vbVars

\* lines 85-89: {K: V, ...}
ParseRepeatingMapCall ==
  /\ pc = "call"
  /\ Branch(schema, x) = "repeating_map"
  /\ result' = Parse(schema, x)
  /\ pc' = "done"
  /\ UNCHANGED <<schema, x, keyFirst>>
  /\ UNCHANGED vbVars

\* lines 91-92: any other {...}
ParseLiteralObject ==
  /\ pc = "call"
  /\ Branch(schema, x) = "literal_object"
  /\ result' = Parse(schema, x)
  /\ pc' = "done"
  /\ UNCHANGED <<schema, x, keyFirst>>
  /\ UNCHANGED vbVars

\* lines 94-98: [E, ...]
ParseRepeatingListCall ==
  /\ pc = "call"
  /\ Branch(schema, x) = "repeating_list"
  /\ result' = Parse(schema, x)
  /\ pc' = "done"
  /\ UNCHANGED <<schema, x, keyFirst>>
  /\ UNCHANGED vbVars

\* lines 100-101: any other [...]
ParseBadList ==
  /\ pc = "call"
  /\ Branch(schema, x) = "bad_list"
  /\ result' = Parse(schema, x)
  /\ pc' = "done"
  /\ UNCHANGED <<schema, x, keyFirst>>
  /\ UNCHANGED vbVars

\* lines 103-106: (P1, ..., PN)
ParseTupleCall ==
  /\ pc = "call"
  /\ Branch(schema, x) = "tuple"
  /\ result' = Parse(schema, x)
  /\ pc' = "done"
  /\ UNCHANGED <<schema, x, keyFirst>>
  /\ UNCHANGED vbVars

\* lines 108-114: Name(f1:T1, ..., fn:Tn)
ParseRecordCall ==
  /\ pc = "call"
  /\ Branch(schema, x) = "record"
  /\ result' = Parse(schema, x)
  /\ pc' = "done"
  /\ UNCHANGED <<schema, x, keyFirst>>
  /\ UNCHANGED vbVars

\* line 116: no form matches
ParseUnrecognized ==
  /\ pc = "call"
  /\ Branch(schema, x) = "unrecognized"
  /\ result' = Parse(schema, x)
  /\ pc' = "done"
  /\ UNCHANGED <<schema, x, keyFirst>>
  /\ UNCHANGED vbVars

Next ==
  \/ ParseCurry
  \/ ParseEmpty
  \/ ParseToken
  \/ ParseRepeatingMapCall
  \/ ParseLiteralObject
  \/ ParseRepeatingListCall
  \/ ParseBadList
  \/ ParseTupleCall
  \/ ParseRecordCall
  \/ ParseUnrecognized

Spec == Init /\ [][Next]_vars

----------------------------------------------------------------------------
(* Claims about parse, checked under Spec.                                 *)

\* C1: for a registered token name and any decoded value (null included) on
\* which the token's converter succeeds, parse returns exactly what the
\* converter returns.
C1_TokenReturnsConverterResult ==
  (pc = "done" /\ schema \in TokenNames /\ ~IsErr(Convert(schema, x)))
    => result = Convert(schema, x)

\* C2: an empty or whitespace-only schema gives the null result for every
\* value, null included.
C2_EmptySchemaReturnsNone ==
  (pc = "done" /\ Strip(schema) = <<>>) => result = VNone

\* o is a mapping that holds the keys of the first n members
HasKeys(o, n) ==
  /\ o.t = "dict"
  /\ \A j \in 1..n : \E k \in 1..Len(o.pairs) : o.pairs[k][1] = VStr(KeyOf(j))

\* value[key] of a mapping that holds the key
ValueAt(o, key) == o.pairs[CHOOSE k \in 1..Len(o.pairs) : o.pairs[k][1] = VStr(key)][2]

\* parse(Sj, value[kj]) for each member j
MemberOutcomes(frags, o) ==
  [j \in 1..Len(frags) |-> Parse(frags[j], ValueAt(o, KeyOf(j)))]

\* C3: a literal object {'k1': S1, ..., 'kn': Sn,} applied to a mapping that
\* holds every ki returns the mapping with exactly the keys k1..kn and
\* result[ki] = parse(Si, value[ki]); keys the schema does not name are
\* absent.  When a member's parse fails there is no result.
C3_LiteralObjectKeepsNamedKeys ==
  \A c \in ObjCases :
    (pc = "done" /\ schema = c.text /\ HasKeys(x, Len(c.frags))) =>
      IF HasErr(MemberOutcomes(c.frags, x)) THEN IsErr(result)
      ELSE result = VDict([j \in 1..Len(c.frags) |->
                             <<VStr(KeyOf(j)), MemberOutcomes(c.frags, x)[j]>>])

\* a record member and a repeating-map member were coerced and the key z of
\* the value, which the schema does not name, was dropped
C3_Witness ==
  /\ pc = "done"
  /\ schema = RenderObject("'", <<S_record_P, S_map_str_int>>)
  /\ x = WithExtra(DictOf(<<V_12, V_a1>>))
  /\ result = VDict(<<
       <<VStr(KeyOf(1)), VNamedTuple(W_P, <<FieldOf(1), FieldOf(2)>>, <<VInt(1), VInt(2)>>)>>,
       <<VStr(KeyOf(2)), V_a1>> >>)

\* C4: a tuple schema whose inner text has N parts at its top-level commas
\* returns, for a sequence of length N, the tuple of parse(Pi, x[i]), and
\* fails, with no result, for a sequence of any other length.
C4_TupleSplitsAtTopLevelCommas ==
  \A c \in TupleCases :
    (pc = "done" /\ schema = c.text /\ x.t \in {"list", "tuple"}) =>
      IF Len(x.items) = Len(c.parts)
      THEN LET out == [j \in 1..Len(c.parts) |-> Parse(c.parts[j], x.items[j])]
           IN  IF HasErr(out) THEN IsErr(result) ELSE result = VTuple(out)
      ELSE IsErr(result)

\* C5: a repeating map {K : V, ...}, K and V any schema fragments, applied to
\* a mapping returns the mapping built by inserting parse(K, k) -> parse(V, v)
\* for every entry in iteration order, a later entry overwriting an earlier
\* one with the same coerced key; applied to a non-mapping it fails.  (Stated
\* for the values other than None: parse(schema, None) is the curried call of
\* lines 74-75, which C1 and C2 are about.)
C5_RepeatingMapCoercesEveryEntry ==
  \A c \in MapCases :
    (pc = "done" /\ schema = c.text /\ x # VNone) =>
      IF x.t = "dict"
      THEN LET ks == [j \in 1..Len(x.pairs) |-> Parse(c.k, x.pairs[j][1])]
               vs == [j \in 1..Len(x.pairs) |-> Parse(c.v, x.pairs[j][2])]
           IN  IF HasErr(ks) \/ HasErr(vs) THEN IsErr(result)
               ELSE result =
                      VDict(DictUpdate(<<>>, [j \in 1..Len(x.pairs) |-> <<ks[j], vs[j]>>]))
      ELSE IsErr(result)

\* C6: a record Name(f1:T1, ..., fn:Tn) with token field types applied to a
\* sequence of length n returns the record tagged Name with the fields
\* f1..fn in declared order, fi = parse(Ti, x[i]), whitespace around names
\* and types (blanks and line breaks alike) ignored; applied to a sequence
\* of another length it fails.
C6_RecordBindsFieldsByPosition ==
  \A c \in RecordCases :
    (pc = "done" /\ schema = c.text /\ x.t \in {"list", "tuple"}) =>
      IF Len(x.items) = Len(c.types)
      THEN LET out == [j \in 1..Len(c.types) |-> Parse(c.types[j], x.items[j])]
           IN  IF HasErr(out) THEN IsErr(result)
               ELSE result =
                      VNamedTuple(c.name, [j \in 1..Len(c.types) |-> FieldOf(j)], out)
      ELSE IsErr(result)

\* C9: {"k": S,} and {'k': S,} give the same result on every mapping.
C9_DoubleQuotedKeyAsSingleQuoted ==
  \A c \in DQCases :
    (pc = "done" /\ schema = c.text /\ x.t = "dict") => result = Parse(c.single, x)

\* the first member whose key the mapping lacks
FirstMissing(o, n) ==
  SetMin({j \in 1..n : \A k \in 1..Len(o.pairs) : o.pairs[k][1] # VStr(KeyOf(j))})

\* C10: a literal object, {} included, applied to a value that is not a
\* mapping or that lacks a named key fails; a missing key is reported at its
\* member, after the members to its left were coerced and before any member
\* to its right is examined.  (Stated for the values other than None, as C5.)
C10_LiteralObjectRejectsBadValue ==
  \A c \in ObjCases :
    (pc = "done" /\ schema = c.text /\ x # VNone /\ ~HasKeys(x, Len(c.frags))) =>
      /\ IsErr(result)
      /\ x.t = "dict" =>
           LET left == MemberOutcomes(SubSeq(c.frags, 1, FirstMissing(x, Len(c.frags)) - 1), x)
           IN  result = IF HasErr(left) THEN FirstErr(left)
                        ELSE Err("AssertionError", "key not found")

----------------------------------------------------------------------------
(* verify_balanced, one loop iteration per step.                           *)

opening == <<"{", "[", "(">>
closing == <<"}", "]", ")">>

VBAlphabet == {"{", "[", "(", "}", "]", ")", "a"}

\* verify_balanced(s) is about to run; parse is not part of this specification
VBInit ==
  /\ s \in SeqsUpTo(VBAlphabet, MaxVBLen)
  /\ i = 0
  /\ stack = <<>>
  /\ vbpc = "scan"
  /\ vbRet = VNone
  /\ schema = <<>>
  /\ x = VNone
  /\ keyFirst = TRUE
  /\ pc = "idle"
  /\ result = VNone

\* line 154-155: an opening delimiter is pushed with its index and kind
VBPush ==
  /\ vbpc = "scan" /\ i < Len(s)
  /\ In(opening, At(s, i))
  /\ stack' = Append(stack, <<i, IndexIn(opening, At(s, i))>>)
  /\ i' = i + 1
  /\ UNCHANGED <<s, vbpc, vbRet>>
  /\ UNCHANGED parseVars

\* line 156-158: a closing delimiter pops an opener of its own kind
VBPopMatch ==
  /\ vbpc = "scan" /\ i < Len(s)
  /\ ~In(opening, At(s, i)) /\ In(closing, At(s, i))
  /\ stack # <<>>
  /\ stack[Len(stack)][2] = IndexIn(closing, At(s, i))
  /\ stack' = SubSeq(stack, 1, Len(stack) - 1)
  /\ i' = i + 1
  /\ UNCHANGED <<s, vbpc, vbRet>>
  /\ UNCHANGED parseVars

\* the wrong index: that of the closing delimiter
MismatchReturnsCloser(top, at) == at

\* the index line 159 returns: that of the popped opener
MismatchReturn(top, at) == top[1]

\* line 156-159: a closing delimiter pops an opener of another kind: return j
VBPopMismatch ==
  /\ vbpc = "scan" /\ i < Len(s)
  /\ ~In(opening, At(s, i)) /\ In(closing, At(s, i))
  /\ stack # <<>>
  /\ stack[Len(stack)][2] # IndexIn(closing, At(s, i))
  /\ stack' = SubSeq(stack, 1, Len(stack) - 1)
  /\ vbRet' = VInt(MismatchReturn(stack[Len(stack)], i))
  /\ vbpc' = "mismatch"
  /\ UNCHANGED <<s, i>>
  /\ UNCHANGED parseVars

\* line 157: stack.pop() on an empty list raises IndexError
VBPopEmpty ==
  /\ vbpc = "scan" /\ i < Len(s)
  /\ ~In(opening, At(s, i)) /\ In(closing, At(s, i))
  /\ stack = <<>>
  /\ vbRet' = Err("IndexError", "pop from empty list")
  /\ vbpc' = "raised"
  /\ UNCHANGED <<s, i, stack>>
  /\ UNCHANGED parseVars

\* any other character
VBSkip ==
  /\ vbpc = "scan" /\ i < Len(s)
  /\ ~In(opening, At(s, i)) /\ ~In(closing, At(s, i))
  /\ i' = i + 1
  /\ UNCHANGED <<s, stack, vbpc, vbRet>>
  /\ UNCHANGED parseVars

\* line 161-163: openers are left at the end: pop one and return its index
VBUnclosed ==
  /\ vbpc = "scan" /\ i = Len(s)
  /\ Len(stack) > 0
  /\ stack' = SubSeq(stack, 1, Len(stack) - 1)
  /\ vbRet' = VInt(stack[Len(stack)][1])
  /\ vbpc' = "unclosed"
  /\ UNCHANGED <<s, i>>
  /\ UNCHANGED parseVars

\* line 165
VBBalanced ==
  /\ vbpc = "scan" /\ i = Len(s)
  /\ Len(stack) = 0
  /\ vbRet' = VNone
  /\ vbpc' = "balanced"
  /\ UNCHANGED <<s, i, stack>>
  /\ UNCHANGED parseVars

\* verify_balanced as a function of its argument: the loop of lines 153-159
\* from index k with the list stk, then lines 161-165; the value returned and
\* the list as the loop left it
RECURSIVE VBLoop(_, _, _)
VBLoop(str, k, stk) ==
  IF k = Len(str)
  THEN [ret |-> IF Len(stk) > 0 THEN VInt(stk[Len(stk)][1]) ELSE VNone,
        left |-> stk]
  ELSE LET c == At(str, k)
       IN  IF In(opening, c)
           THEN VBLoop(str, k + 1, Append(stk, <<k, IndexIn(opening, c)>>))
           ELSE IF In(closing, c)
           THEN IF stk = <<>>
                THEN [ret |-> Err("IndexError", "pop from empty list"), left |-> stk]
                ELSE IF stk[Len(stk)][2] # IndexIn(closing, c)
                THEN [ret |-> VInt(MismatchReturn(stk[Len(stk)], k)),
                      left |-> SubSeq(stk, 1, Len(stk) - 1)]
                ELSE VBLoop(str, k + 1, SubSeq(stk, 1, Len(stk) - 1))
           ELSE VBLoop(str, k + 1, stk)

verify_balanced(str) == VBLoop(str, 0, <<>>).ret

----------------------------------------------------------------------------
(* Claims about verify_balanced, checked under SpecVB.                     *)

\* the openers left on the list when the scan of s ends without a return
LeftAtEnd == VBLoop(s, 0, <<>>).left

\* C7: when the scan ends with openers left, the index returned is that of the
\* earliest opener left (the bottom of the list); when none is left the result
\* is None.
C7_UnclosedReturnsEarliest ==
  /\ vbpc = "unclosed" => vbRet = VInt(LeftAtEnd[1][1])
  /\ vbpc = "balanced" => vbRet = VNone

\* a closing delimiter is being read whose kind differs from that of the
\* opener on top of the list; no return was taken before it
AtFirstMismatch ==
  /\ vbpc = "scan" /\ i < Len(s)
  /\ In(closing, At(s, i))
  /\ stack # <<>>
  /\ stack[Len(stack)][2] # IndexIn(closing, At(s, i))

\* C8: at the first closing delimiter whose kind differs from the kind of the
\* opener on top of the list the scan stops and returns the index of that
\* popped opener, and every string that agrees with s up to that closing
\* delimiter gives the same result, whatever follows.
C8_MismatchReturnsPoppedOpener ==
  [][AtFirstMismatch =>
       /\ vbpc' = "mismatch"
       /\ vbRet' = VInt(stack[Len(stack)][1])
       /\ \A tail \in SeqsUpTo(VBAlphabet, MaxVBLen - (i + 1)) :
            verify_balanced(SubSeq(s, 1, i + 1) \o tail) = vbRet']_vars

\* a mismatch was returned with an opener below the popped one and with
\* characters left unread
C8_Witness ==
  /\ vbpc = "mismatch"
  /\ Len(stack) > 0
  /\ i + 1 < Len(s)
  /\ vbRet = VInt(i - 1)


VBNext ==
  \/ VBPush
  \/ VBPopMatch
  \/ VBPopMismatch
  \/ VBPopEmpty
  \/ VBSkip
  \/ VBUnclosed
  \/ VBBalanced

SpecVB == VBInit /\ [][VBNext]_vars

====
